---------------------------- MODULE Spec2Model ----------------------------
(***************************************************************************)
(* Model of the 4-dimensional maze core of omg-shush/maze:                 *)
(*   - DisjointSet (src/src/disjoint_set.rs): add, union, find             *)
(*   - World::new / World::generate_maze / World::check_move               *)
(*     (src/src/world.rs)                                                  *)
(*   - World::bfs, called by src/src/ghost.rs                              *)
(*   - the game on the generated world: generate_food (objects.rs),        *)
(*     Player::move_position / Player::update (player.rs),                 *)
(*     Ghost::new / Ghost::update (ghost.rs)                               *)
(*   - a second call of the public generate_maze (main.rs)                 *)
(*                                                                         *)
(* A Coordinate is the tuple <<x, y, z, w>> (world.rs:27).  The wall       *)
(* arrays are indexed [w][z][y][x] in the source; here they are functions  *)
(* over the index tuple <<w, z, y, x>>.                                    *)
(***************************************************************************)
EXTENDS Integers, Sequences, FiniteSets, TLC

(***************************************************************************)
(* Bounds of the model.                                                    *)
(***************************************************************************)
\* The grids explored are all width x height x depth x fourth grids with at
\* most MaxCells cells.
MaxCells == 4
\* Components of the deltas handed to check_move range over -MaxDelta..MaxDelta.
MaxDelta == 2
\* Number of keys used when the disjoint set is exercised on its own.
MaxKeys == 3
\* food_count ranges over 0..MaxFood.
MaxFood == 2

VARIABLES
    width, height, depth, fourth,       \* World dimensions
    xwalls, ywalls, zwalls, wwalls,     \* World wall arrays
    start, finish, solution,            \* World::start, finish, solution
    pc,                                 \* position inside the running operation
    edges,                              \* generate_maze: edges not yet processed
    table,                              \* DisjointSet::table
    neighbors,                          \* generate_maze: neighbors map
    queue, visited, backtrack,          \* generate_maze: BFS locals
    previous,                           \* generate_maze: backtracking cursor
    last,                               \* the call made on the structure and what it returned
    cells,                              \* World::cells
    food_count,                         \* Config::food_count
    food, placed,                       \* Objects::food; iterations done by generate_food
    player,                             \* Player: dest_position, score, game_state
    ghost                               \* Ghost: grace, position, dest_position

dimVars  == <<width, height, depth, fourth>>
wallVars == <<xwalls, ywalls, zwalls, wwalls>>
pathVars == <<start, finish, solution>>
genVars  == <<edges, neighbors, queue, visited, backtrack, previous>>
gameVars == <<cells, food_count, food, placed, player, ghost>>
vars == <<dimVars, wallVars, pathVars, pc, genVars, table, last, gameVars>>

NoCall == [op |-> "none"]

(***************************************************************************)
(* Grid model                                                              *)
(***************************************************************************)
\* All coordinates of a grid of the given extent.
GridCells(wd, h, d, f) ==
    {<<x, y, z, w>> : x \in 0..(wd - 1), y \in 0..(h - 1), z \in 0..(d - 1), w \in 0..(f - 1)}

Cells == GridCells(width, height, depth, fourth)

\* Index sets <<w, z, y, x>> of the four wall arrays (world.rs:108-111).
\* Variant of the xwalls index set: width entries per row instead of width + 1.
XWallIdxShort(wd, h, d, f) ==
    {<<w, z, y, x>> : w \in 0..(f - 1), z \in 0..(d - 1), y \in 0..(h - 1), x \in 0..(wd - 1)}
XWallIdx(wd, h, d, f) ==
    {<<w, z, y, x>> : w \in 0..(f - 1), z \in 0..(d - 1), y \in 0..(h - 1), x \in 0..wd}
YWallIdx(wd, h, d, f) ==
    {<<w, z, y, x>> : w \in 0..(f - 1), z \in 0..(d - 1), y \in 0..h, x \in 0..(wd - 1)}
ZWallIdx(wd, h, d, f) ==
    {<<w, z, y, x>> : w \in 0..(f - 1), z \in 0..d, y \in 0..(h - 1), x \in 0..(wd - 1)}
WWallIdx(wd, h, d, f) ==
    {<<w, z, y, x>> : w \in 0..f, z \in 0..(d - 1), y \in 0..(h - 1), x \in 0..(wd - 1)}

\* The eight deltas matched by check_move.
UnitDeltas ==
    {<<-1, 0, 0, 0>>, <<1, 0, 0, 0>>, <<0, -1, 0, 0>>, <<0, 1, 0, 0>>,
     <<0, 0, 1, 0>>, <<0, 0, -1, 0>>, <<0, 0, 0, 1>>, <<0, 0, 0, -1>>}

(***************************************************************************)
(* DisjointSet (disjoint_set.rs)                                           *)
(***************************************************************************)
Top == [tag |-> "Top", ptr |-> <<>>]
Ptr(k) == [tag |-> "Ptr", ptr |-> k]

\* Outcomes of a call: it returns, it panics, or it never returns.
Ok(k) == [outcome |-> "ok", rep |-> k]
Panic == [outcome |-> "panic", rep |-> <<>>]
Diverge == [outcome |-> "diverge", rep |-> <<>>]

\* Variant of find: a missing entry is taken for Top instead of panicking.
RECURSIVE FindFromDefault(_, _, _)
FindFromDefault(t, val, seen) ==
    IF val \notin DOMAIN t THEN Ok(val)
    ELSE IF t[val].tag = "Top" THEN Ok(val)
    ELSE IF val \in seen THEN Diverge
    ELSE FindFromDefault(t, t[val].ptr, seen \cup {val})

\* find recurses along Ptr entries until an entry marked Top.  A key outside
\* the table ends in the panic "Value not in disjoint set".  The recursion has
\* no other exit: when the Ptr chain revisits a key the call never returns,
\* which the set `seen` detects.
RECURSIVE FindFrom(_, _, _)
FindFrom(t, val, seen) ==
    IF val \notin DOMAIN t THEN Panic
    ELSE IF t[val].tag = "Top" THEN Ok(val)
    ELSE IF val \in seen THEN Diverge
    ELSE FindFrom(t, t[val].ptr, seen \cup {val})

Find(t, val) == FindFrom(t, val, {})

\* Variant of add: an entry that is already present is kept.
AddIfAbsent(t, val) == [k \in (DOMAIN t) \cup {val} |-> IF k \in DOMAIN t THEN t[k] ELSE Top]

\* add: insert (val, Top), replacing any earlier entry of val.
Add(t, val) == [k \in (DOMAIN t) \cup {val} |-> IF k = val THEN Top ELSE t[k]]

\* Variant of union: both finds are made but the pointer is never written.
UnionForget(t, a, b) ==
    LET a_top == Find(t, a)
        b_top == Find(t, b)
    IN  IF a_top.outcome # "ok" THEN [res |-> a_top, table |-> t]
        ELSE IF b_top.outcome # "ok" THEN [res |-> b_top, table |-> t]
        ELSE [res |-> Ok(b_top.rep), table |-> t]

\* Variant of union: the pointer is written into the entry of a itself.
UnionDirect(t, a, b) ==
    LET a_top == Find(t, a)
        b_top == Find(t, b)
    IN  IF a_top.outcome # "ok" THEN [res |-> a_top, table |-> t]
        ELSE IF b_top.outcome # "ok" THEN [res |-> b_top, table |-> t]
        ELSE [res |-> Ok(b_top.rep),
              table |-> [t EXCEPT ![a] = Ptr(b_top.rep)]]

\* union: result of the call and the table it leaves.
Union(t, a, b) ==
    LET a_top == Find(t, a)
        b_top == Find(t, b)
    IN  IF a_top.outcome # "ok" THEN [res |-> a_top, table |-> t]
        ELSE IF b_top.outcome # "ok" THEN [res |-> b_top, table |-> t]
        ELSE [res |-> Ok(b_top.rep),
              table |-> [t EXCEPT ![a_top.rep] = Ptr(b_top.rep)]]

(***************************************************************************)
(* World::new (world.rs:103-121): the state before generate_maze runs      *)
(***************************************************************************)
Solid(idx) == [i \in idx |-> "SolidWall"]

EmptyMap == [k \in {} |-> <<>>]

\* Player::new (player.rs:55-64).
NewPlayer == [dest_position |-> <<0, 0, 0, 0>>, score |-> 0, game_state |-> "Playing"]

\* The ghost before Ghost::new has drawn its position.
\* current_move_time is kept as a multiple of move_time.
NoGhost ==
    [grace |-> TRUE, position |-> <<0, 0, 0, 0>>, dest_position |-> <<0, 0, 0, 0>>,
     init_position |-> <<0, 0, 0, 0>>, current_move_time |-> 1]

NewWorld ==
    /\ width \in 1..MaxCells
    /\ height \in 1..MaxCells
    /\ depth \in 1..MaxCells
    /\ fourth \in 1..MaxCells
    /\ width * height * depth * fourth <= MaxCells
    /\ xwalls = Solid(XWallIdx(width, height, depth, fourth))
    /\ ywalls = Solid(YWallIdx(width, height, depth, fourth))
    /\ zwalls = Solid(ZWallIdx(width, height, depth, fourth))
    /\ wwalls = Solid(WWallIdx(width, height, depth, fourth))
    /\ start = <<0, 0, 0, 0>>
    /\ finish = <<width - 1, height - 1, depth - 1, fourth - 1>>
    /\ solution = <<>>
    /\ pc = "generate_maze"
    /\ edges = {}
    /\ table = EmptyMap
    /\ neighbors = EmptyMap
    /\ queue = <<>>
    /\ visited = {}
    /\ backtrack = EmptyMap
    /\ previous = <<0, 0, 0, 0>>
    /\ last = NoCall
    /\ cells = [c \in GridCells(width, height, depth, fourth) |-> "Empty"]
    /\ food = {}
    /\ placed = 0
    /\ player = NewPlayer
    /\ ghost = NoGhost

\* The world on its own: no food is asked for.
Init == NewWorld /\ food_count = 0

(***************************************************************************)
(* World::generate_maze (world.rs:270-388)                                 *)
(***************************************************************************)
XWall(c) == [axis |-> "XWall", c |-> c]
YWall(c) == [axis |-> "YWall", c |-> c]
ZWall(c) == [axis |-> "ZWall", c |-> c]
WWall(c) == [axis |-> "WWall", c |-> c]

\* The cell reached by the n-th iteration (counted from 0) of the nested loops
\* over w, z, y, x, with x running fastest.
LoopCell(n) ==
    <<n % width,
      (n \div width) % height,
      (n \div (width * height)) % depth,
      (n \div (width * height * depth)) % fourth>>

\* Variant of the loop body: the YWall push is guarded by x != 0.
CellEdgesCopyPaste(c) ==
    (IF c[1] # 0 THEN <<XWall(c)>> ELSE <<>>) \o
    (IF c[1] # 0 THEN <<YWall(c)>> ELSE <<>>) \o
    (IF c[3] # 0 THEN <<ZWall(c)>> ELSE <<>>) \o
    (IF c[4] # 0 THEN <<WWall(c)>> ELSE <<>>)

\* Lines 286-297: the edges pushed for one cell, in the order of the pushes.
CellEdges(c) ==
    (IF c[1] # 0 THEN <<XWall(c)>> ELSE <<>>) \o
    (IF c[2] # 0 THEN <<YWall(c)>> ELSE <<>>) \o
    (IF c[3] # 0 THEN <<ZWall(c)>> ELSE <<>>) \o
    (IF c[4] # 0 THEN <<WWall(c)>> ELSE <<>>)

\* Lines 281-301: the list after the first n iterations of the nested loops.
RECURSIVE EdgesAfter(_)
EdgesAfter(n) ==
    IF n = 0 THEN <<>>
    ELSE EdgesAfter(n - 1) \o CellEdges(LoopCell(n - 1))

\* The edge list as built, before the shuffle.
EdgeList == EdgesAfter(width * height * depth * fourth)

\* Variant of the edge list: the fourth axis is left out.
MazeEdgesNoW ==
    {XWall(c) : c \in {k \in Cells : k[1] # 0}} \cup
    {YWall(c) : c \in {k \in Cells : k[2] # 0}} \cup
    {ZWall(c) : c \in {k \in Cells : k[3] # 0}}

\* The candidate edges handed to the loop: the elements of the edge list.  An
\* edge pushed twice would be met twice by the loop; the second time its two
\* cells are in one group and it is skipped, so the set of elements yields
\* the same runs as the list.
MazeEdges == {EdgeList[i] : i \in 1..Len(EdgeList)}

\* (cell_a, cell_b) of an edge: the lower neighbour and the cell itself.
EdgeCells(edge) ==
    LET x == edge.c[1]
        y == edge.c[2]
        z == edge.c[3]
        w == edge.c[4]
    IN  CASE edge.axis = "XWall" -> <<<<x - 1, y, z, w>>, <<x, y, z, w>>>>
          [] edge.axis = "YWall" -> <<<<x, y - 1, z, w>>, <<x, y, z, w>>>>
          [] edge.axis = "ZWall" -> <<<<x, y, z - 1, w>>, <<x, y, z, w>>>>
          [] edge.axis = "WWall" -> <<<<x, y, z, w - 1>>, <<x, y, z, w>>>>

\* Variant of the wall removal: the entry at the coordinates of the lower
\* cell of the edge is cleared.
RemoveEdgeLowerCell(edge) ==
    LET a == EdgeCells(edge)[1]
        idx == <<a[4], a[3], a[2], a[1]>>
    IN  [xwalls |-> IF edge.axis = "XWall" THEN [xwalls EXCEPT ![idx] = "NoWall"] ELSE xwalls,
         ywalls |-> IF edge.axis = "YWall" THEN [ywalls EXCEPT ![idx] = "NoWall"] ELSE ywalls,
         zwalls |-> IF edge.axis = "ZWall" THEN [zwalls EXCEPT ![idx] = "NoWall"] ELSE zwalls,
         wwalls |-> IF edge.axis = "WWall" THEN [wwalls EXCEPT ![idx] = "NoWall"] ELSE wwalls]

\* Variant of the wall removal: the YWall arm clears the xwalls entry.
RemoveEdgeCopyPaste(edge) ==
    LET idx == <<edge.c[4], edge.c[3], edge.c[2], edge.c[1]>>
    IN  [xwalls |-> IF edge.axis \in {"XWall", "YWall"} THEN [xwalls EXCEPT ![idx] = "NoWall"] ELSE xwalls,
         ywalls |-> ywalls,
         zwalls |-> IF edge.axis = "ZWall" THEN [zwalls EXCEPT ![idx] = "NoWall"] ELSE zwalls,
         wwalls |-> IF edge.axis = "WWall" THEN [wwalls EXCEPT ![idx] = "NoWall"] ELSE wwalls]

\* The wall arrays after "Remove edge between these cells in world".
RemoveEdge(edge) ==
    LET idx == <<edge.c[4], edge.c[3], edge.c[2], edge.c[1]>>
    IN  [xwalls |-> IF edge.axis = "XWall" THEN [xwalls EXCEPT ![idx] = "NoWall"] ELSE xwalls,
         ywalls |-> IF edge.axis = "YWall" THEN [ywalls EXCEPT ![idx] = "NoWall"] ELSE ywalls,
         zwalls |-> IF edge.axis = "ZWall" THEN [zwalls EXCEPT ![idx] = "NoWall"] ELSE zwalls,
         wwalls |-> IF edge.axis = "WWall" THEN [wwalls EXCEPT ![idx] = "NoWall"] ELSE wwalls]

\* Variant of the neighbour marking: cell_b is pushed twice onto cell_a's list.
MarkNeighborsTwice(nb, cell_a, cell_b) ==
    LET keys == (DOMAIN nb) \cup {cell_a, cell_b}
        withKeys == [k \in keys |-> IF k \in DOMAIN nb THEN nb[k] ELSE <<>>]
        pushedA == [withKeys EXCEPT ![cell_a] = Append(Append(@, cell_b), cell_b)]
    IN  [pushedA EXCEPT ![cell_b] = Append(@, cell_a)]

\* Variant of the neighbour marking: only cell_b is pushed onto cell_a's list.
MarkNeighborsOneWay(nb, cell_a, cell_b) ==
    LET keys == (DOMAIN nb) \cup {cell_a, cell_b}
        withKeys == [k \in keys |-> IF k \in DOMAIN nb THEN nb[k] ELSE <<>>]
    IN  [withKeys EXCEPT ![cell_a] = Append(@, cell_b)]

\* neighbors after inserting empty lists for missing keys and pushing each
\* cell onto the other's list.
MarkNeighbors(nb, cell_a, cell_b) ==
    LET keys == (DOMAIN nb) \cup {cell_a, cell_b}
        withKeys == [k \in keys |-> IF k \in DOMAIN nb THEN nb[k] ELSE <<>>]
        pushedA == [withKeys EXCEPT ![cell_a] = Append(@, cell_b)]
    IN  [pushedA EXCEPT ![cell_b] = Append(@, cell_a)]

\* Lines 281-320: build the edge list, shuffle it, register every cell in a
\* fresh disjoint set, create the empty neighbors map.  The shuffled order is
\* not stored: the loop below takes the remaining edges in any order, which
\* yields exactly the runs of every permutation of the list.
BeginGenerate ==
    /\ pc = "generate_maze"
    /\ edges' = MazeEdges
    /\ table' = [c \in Cells |-> Top]
    /\ neighbors' = EmptyMap
    /\ pc' = "kruskal"
    /\ UNCHANGED <<gameVars, dimVars, wallVars, pathVars, queue, visited, backtrack, previous, last>>

\* Variant of the loop body: the wall is cleared and the cells are recorded as
\* neighbours for every edge; the groups are united when they differ.
ProcessEdgeBraid(edge) ==
    /\ edges' = edges \ {edge}
    /\ LET cell_a == EdgeCells(edge)[1]
           cell_b == EdgeCells(edge)[2]
           set_a == Find(table, cell_a)
           set_b == Find(table, cell_b)
           walls == RemoveEdge(edge)
       IN  /\ xwalls' = walls.xwalls
           /\ ywalls' = walls.ywalls
           /\ zwalls' = walls.zwalls
           /\ wwalls' = walls.wwalls
           /\ neighbors' = MarkNeighbors(neighbors, cell_a, cell_b)
           /\ table' = IF set_a.rep # set_b.rep
                       THEN Union(table, set_a.rep, set_b.rep).table
                       ELSE table
           /\ pc' = "kruskal"
    /\ UNCHANGED <<gameVars, dimVars, pathVars, queue, visited, backtrack, previous, last>>

\* Lines 322-350: the body of the loop over the shuffled edges.
ProcessEdge(edge) ==
    /\ edges' = edges \ {edge}
    /\ LET cell_a == EdgeCells(edge)[1]
           cell_b == EdgeCells(edge)[2]
           set_a == Find(table, cell_a)
           set_b == Find(table, cell_b)
       IN  IF set_a.outcome # "ok" \/ set_b.outcome # "ok"
           THEN /\ pc' = IF "diverge" \in {set_a.outcome, set_b.outcome} THEN "diverge" ELSE "panic"
                /\ UNCHANGED <<wallVars, neighbors, table>>
           ELSE IF set_a.rep # set_b.rep
           THEN LET walls == RemoveEdge(edge)
                    u == Union(table, set_a.rep, set_b.rep)
                IN  /\ xwalls' = walls.xwalls
                    /\ ywalls' = walls.ywalls
                    /\ zwalls' = walls.zwalls
                    /\ wwalls' = walls.wwalls
                    /\ neighbors' = MarkNeighbors(neighbors, cell_a, cell_b)
                    /\ table' = u.table
                    /\ pc' = IF u.res.outcome = "ok" THEN "kruskal" ELSE u.res.outcome
           ELSE /\ pc' = "kruskal"
                /\ UNCHANGED <<wallVars, neighbors, table>>
    /\ UNCHANGED <<gameVars, dimVars, pathVars, queue, visited, backtrack, previous, last>>

\* Line 321: the loop takes the next edge of the shuffled list.
KruskalStep ==
    /\ pc = "kruskal"
    /\ \E edge \in edges : ProcessEdge(edge)

\* Variant of the exit: the entry at width - 1 is cleared instead of width.
CarveExitOffByOne ==
    /\ pc = "kruskal"
    /\ edges = {}
    /\ xwalls' = [xwalls EXCEPT ![<<fourth - 1, depth - 1, height - 1, width - 1>>] = "NoWall"]
    /\ queue' = <<<<0, 0, 0, 0>>>>
    /\ visited' = {<<0, 0, 0, 0>>}
    /\ backtrack' = EmptyMap
    /\ pc' = "bfs"
    /\ UNCHANGED <<gameVars, dimVars, ywalls, zwalls, wwalls, pathVars, edges, neighbors, previous, table, last>>

\* Lines 354-362: carve the exit, then set up the breadth-first search.
CarveExit ==
    /\ pc = "kruskal"
    /\ edges = {}
    /\ xwalls' = [xwalls EXCEPT ![<<fourth - 1, depth - 1, height - 1, width>>] = "NoWall"]
    /\ queue' = <<<<0, 0, 0, 0>>>>
    /\ visited' = {<<0, 0, 0, 0>>}
    /\ backtrack' = EmptyMap
    /\ pc' = "bfs"
    /\ UNCHANGED <<gameVars, dimVars, ywalls, zwalls, wwalls, pathVars, edges, neighbors, previous, table, last>>

\* Variant of the neighbour loop: the back-pointer of a newly visited cell is
\* not recorded.
RECURSIVE VisitNeighborsNoBacktrack(_, _, _)
VisitNeighborsNoBacktrack(st, cell, ns) ==
    IF ns = <<>> THEN st
    ELSE LET n == Head(ns)
         IN  IF n \notin st.visited
             THEN VisitNeighborsNoBacktrack(
                      [queue |-> Append(st.queue, n),
                       visited |-> st.visited \cup {n},
                       backtrack |-> st.backtrack],
                      cell, Tail(ns))
             ELSE VisitNeighborsNoBacktrack(st, cell, Tail(ns))

\* Lines 368-374: the loop over the neighbours of a dequeued cell.
RECURSIVE VisitNeighbors(_, _, _)
VisitNeighbors(st, cell, ns) ==
    IF ns = <<>> THEN st
    ELSE LET n == Head(ns)
         IN  IF n \notin st.visited
             THEN VisitNeighbors(
                      [queue |-> Append(st.queue, n),
                       visited |-> st.visited \cup {n},
                       backtrack |-> [k \in (DOMAIN st.backtrack) \cup {n} |->
                                          IF k = n THEN cell ELSE st.backtrack[k]]],
                      cell, Tail(ns))
             ELSE VisitNeighbors(st, cell, Tail(ns))

\* Lines 363-375: one iteration of the while loop, over the adjacency map nb.
BfsDequeue(nb, st) ==
    LET cell == Head(st.queue)
        ns == IF cell \in DOMAIN nb THEN nb[cell] ELSE <<>>
    IN  VisitNeighbors([st EXCEPT !.queue = Tail(st.queue)], cell, ns)

BfsStep ==
    /\ pc = "bfs"
    /\ queue # <<>>
    /\ LET st == BfsDequeue(neighbors, [queue |-> queue, visited |-> visited, backtrack |-> backtrack])
       IN  /\ queue' = st.queue
           /\ visited' = st.visited
           /\ backtrack' = st.backtrack
    /\ UNCHANGED <<gameVars, dimVars, wallVars, pathVars, pc, edges, neighbors, previous, table, last>>

\* Variant of the start of the walk: finish is not pushed onto the solution.
BeginBacktrackNoPush ==
    /\ pc = "bfs"
    /\ queue = <<>>
    /\ previous' = finish
    /\ pc' = "backtrack"
    /\ UNCHANGED <<gameVars, dimVars, wallVars, pathVars, edges, neighbors, queue, visited, backtrack, table, last>>

\* Lines 377-381: start the walk back from finish.
BeginBacktrack ==
    /\ pc = "bfs"
    /\ queue = <<>>
    /\ previous' = finish
    /\ solution' = Append(solution, finish)
    /\ pc' = "backtrack"
    /\ UNCHANGED <<gameVars, dimVars, wallVars, start, finish, edges, neighbors, queue, visited, backtrack, table, last>>

\* Lines 382-386: one iteration of the walk; a cell without a back-pointer
\* ends in the panic "Backtracking after BFS failed, impossible".
BacktrackStep ==
    /\ pc = "backtrack"
    /\ previous # start
    /\ IF previous \in DOMAIN backtrack
       THEN /\ previous' = backtrack[previous]
            /\ solution' = Append(solution, backtrack[previous])
            /\ pc' = "backtrack"
       ELSE /\ pc' = "panic"
            /\ UNCHANGED <<previous, solution>>
    /\ UNCHANGED <<gameVars, dimVars, wallVars, start, finish, edges, neighbors, queue, visited, backtrack, table, last>>

Reverse(s) == [i \in 1..Len(s) |-> s[Len(s) + 1 - i]]

\* Variant of the end of generate_maze: the solution is not reversed.
FinishSolutionNoReverse ==
    /\ pc = "backtrack"
    /\ previous = start
    /\ pc' = "done"
    /\ UNCHANGED <<gameVars, dimVars, wallVars, pathVars, genVars, table, last>>

\* Line 387: reverse the solution; generate_maze returns.
FinishSolution ==
    /\ pc = "backtrack"
    /\ previous = start
    /\ solution' = Reverse(solution)
    /\ pc' = "done"
    /\ UNCHANGED <<gameVars, dimVars, wallVars, start, finish, genVars, table, last>>

(***************************************************************************)
(* World::check_move (world.rs:495-540)                                    *)
(***************************************************************************)
\* Result of a call: it returns value after reading the wall entries `reads`,
\* or an index is outside its array and the call panics.
\* Reading entry idx of the wall array of the given axis.
ReadWall(axis, idx) ==
    LET arr == CASE axis = "x" -> xwalls
                 [] axis = "y" -> ywalls
                 [] axis = "z" -> zwalls
                 [] axis = "w" -> wwalls
    IN  IF idx \in DOMAIN arr
        THEN [outcome |-> "ok", value |-> (arr[idx] = "NoWall"), reads |-> {<<axis, idx>>}]
        ELSE [outcome |-> "panic", value |-> FALSE, reads |-> {}]

\* Variant of the match arms: the increment arms forget the + 1.
MoveWallShifted(current, delta) ==
    LET x == current[1]
        y == current[2]
        z == current[3]
        w == current[4]
    IN  CASE delta = <<-1, 0, 0, 0>> -> <<"x", <<w, z, y, x>>>>
          [] delta = <<1, 0, 0, 0>>  -> <<"x", <<w, z, y, x>>>>
          [] delta = <<0, -1, 0, 0>> -> <<"y", <<w, z, y, x>>>>
          [] delta = <<0, 1, 0, 0>>  -> <<"y", <<w, z, y, x>>>>
          [] delta = <<0, 0, 1, 0>>  -> <<"z", <<w, z, y, x>>>>
          [] delta = <<0, 0, -1, 0>> -> <<"z", <<w, z, y, x>>>>
          [] delta = <<0, 0, 0, 1>>  -> <<"w", <<w, z, y, x>>>>
          [] delta = <<0, 0, 0, -1>> -> <<"w", <<w, z, y, x>>>>
          [] OTHER -> <<>>

\* The wall entry each arm of the match reads, <<axis, index>>; <<>> for
\* the default arm.  current holds the coordinates cast to usize; the model
\* hands check_move non-negative coordinates only, for which the cast is the
\* identity.
MoveWall(current, delta) ==
    LET x == current[1]
        y == current[2]
        z == current[3]
        w == current[4]
    IN  CASE delta = <<-1, 0, 0, 0>> -> <<"x", <<w, z, y, x>>>>
          [] delta = <<1, 0, 0, 0>>  -> <<"x", <<w, z, y, x + 1>>>>
          [] delta = <<0, -1, 0, 0>> -> <<"y", <<w, z, y, x>>>>
          [] delta = <<0, 1, 0, 0>>  -> <<"y", <<w, z, y + 1, x>>>>
          [] delta = <<0, 0, 1, 0>>  -> <<"z", <<w, z + 1, y, x>>>>
          [] delta = <<0, 0, -1, 0>> -> <<"z", <<w, z, y, x>>>>
          [] delta = <<0, 0, 0, 1>>  -> <<"w", <<w + 1, z, y, x>>>>
          [] delta = <<0, 0, 0, -1>> -> <<"w", <<w, z, y, x>>>>
          [] OTHER -> <<>>

\* Variant of check_move: the default arm answers true.
check_move_open_default(current, delta) ==
    LET m == MoveWall(current, delta)
    IN  IF m = <<>>
        THEN [outcome |-> "ok", value |-> TRUE, reads |-> {}]
        ELSE ReadWall(m[1], m[2])

\* SolidWall => false, NoWall => true; "_ => false // Invalid move".
check_move(current, delta) ==
    LET m == MoveWall(current, delta)
    IN  IF m = <<>>
        THEN [outcome |-> "ok", value |-> FALSE, reads |-> {}]
        ELSE ReadWall(m[1], m[2])

(***************************************************************************)
(* World::bfs(start, finish), the path search called by Ghost::update      *)
(* (ghost.rs:88).  Its body is not in world.rs; it is modelled after its    *)
(* documented contract: the search of generate_maze run from an arbitrary  *)
(* start to an arbitrary finish over the neighbors map, the frontier       *)
(* searched to exhaustion, a missing back-pointer ending in a panic.       *)
(***************************************************************************)
RECURSIVE BfsRun(_, _)
BfsRun(nb, st) == IF st.queue = <<>> THEN st ELSE BfsRun(nb, BfsDequeue(nb, st))

RECURSIVE WalkBack(_, _, _, _)
WalkBack(bt, from, to, acc) ==
    IF from = to THEN [outcome |-> "ok", path |-> Reverse(acc)]
    ELSE IF from \notin DOMAIN bt THEN [outcome |-> "panic", path |-> <<>>]
    ELSE WalkBack(bt, bt[from], to, Append(acc, bt[from]))

bfs(s, f) ==
    LET st == BfsRun(neighbors, [queue |-> <<s>>, visited |-> {s}, backtrack |-> EmptyMap])
    IN  WalkBack(st.backtrack, f, s, <<f>>)

(***************************************************************************)
(* Calls made on the generated world                                       *)
(***************************************************************************)
\* Deltas tried: every vector with at most two non-zero components in
\* -MaxDelta..MaxDelta (the eight unit vectors, the zero vector, doubled and
\* diagonal steps).
Deltas ==
    {d \in [1..4 -> (0 - MaxDelta)..MaxDelta] : Cardinality({i \in 1..4 : d[i] # 0}) <= 2}

\* The cell outside the grid that the exit leads to.
ExitCell == <<width, height - 1, depth - 1, fourth - 1>>

\* A caller (UserInterface::render, ui.rs:150; the key handlers of main.rs)
\* calls check_move and holds its result.
CallCheckMove ==
    /\ pc = "done"
    /\ last = NoCall
    /\ \E current \in Cells \cup {ExitCell}, delta \in Deltas :
           last' = [op |-> "check_move", current |-> current, delta |-> delta,
                    res |-> check_move(current, delta)]
    /\ UNCHANGED <<gameVars, dimVars, wallVars, pathVars, pc, genVars, table>>

\* A caller (Ghost::update, ghost.rs:88) calls bfs and holds its result.
CallBfs ==
    /\ pc = "done"
    /\ last = NoCall
    /\ \E s \in Cells, f \in Cells :
           last' = [op |-> "bfs", start |-> s, finish |-> f, res |-> bfs(s, f)]
    /\ UNCHANGED <<gameVars, dimVars, wallVars, pathVars, pc, genVars, table>>

\* The caller drops the result; the next call can be made.
Return ==
    /\ pc = "done"
    /\ last # NoCall
    /\ last' = NoCall
    /\ UNCHANGED <<gameVars, dimVars, wallVars, pathVars, pc, genVars, table>>

Next ==
    \/ BeginGenerate
    \/ KruskalStep
    \/ CarveExit
    \/ BfsStep
    \/ BeginBacktrack
    \/ BacktrackStep
    \/ FinishSolution
    \/ CallCheckMove
    \/ CallBfs
    \/ Return

Spec == Init /\ [][Next]_vars

(***************************************************************************)
(* The disjoint set on its own: any sequence of add, union and find calls  *)
(* on a small set of keys, starting from DisjointSet::new().               *)
(***************************************************************************)
DSKeys == {<<i, 0, 0, 0>> : i \in 0..(MaxKeys - 1)}

\* What find returns for every registered key.
Membership(t) == [k \in DOMAIN t |-> Find(t, k)]

InitDS ==
    /\ width = 1 /\ height = 1 /\ depth = 1 /\ fourth = 1
    /\ xwalls = Solid(XWallIdx(1, 1, 1, 1))
    /\ ywalls = Solid(YWallIdx(1, 1, 1, 1))
    /\ zwalls = Solid(ZWallIdx(1, 1, 1, 1))
    /\ wwalls = Solid(WWallIdx(1, 1, 1, 1))
    /\ start = <<0, 0, 0, 0>>
    /\ finish = <<0, 0, 0, 0>>
    /\ solution = <<>>
    /\ pc = "disjoint_set"
    /\ edges = {}
    /\ table = EmptyMap
    /\ neighbors = EmptyMap
    /\ queue = <<>>
    /\ visited = {}
    /\ backtrack = EmptyMap
    /\ previous = <<0, 0, 0, 0>>
    /\ last = NoCall
    /\ cells = [c \in GridCells(1, 1, 1, 1) |-> "Empty"]
    /\ food_count = 0
    /\ food = {}
    /\ placed = 0
    /\ player = NewPlayer
    /\ ghost = NoGhost

\* A call that panicked or never returned ends the run.
Halted == last.op \in {"union", "find", "find_again"} /\ last.res.outcome # "ok"

DSAdd(val) ==
    /\ pc = "disjoint_set"
    /\ ~Halted
    /\ table' = Add(table, val)
    /\ last' = [op |-> "add", val |-> val]
    /\ UNCHANGED <<gameVars, dimVars, wallVars, pathVars, pc, genVars>>

DSUnion(a, b) ==
    /\ pc = "disjoint_set"
    /\ ~Halted
    /\ LET u == Union(table, a, b)
       IN  /\ table' = u.table
           /\ last' = [op |-> "union", a |-> a, b |-> b, res |-> u.res,
                       registered |-> {a, b} \subseteq DOMAIN table]
    /\ UNCHANGED <<gameVars, dimVars, wallVars, pathVars, pc, genVars>>

\* find takes &self: the table is left as it is.
DSFind(val) ==
    /\ pc = "disjoint_set"
    /\ ~Halted
    /\ last' = [op |-> "find", val |-> val, res |-> Find(table, val),
                registered |-> val \in DOMAIN table, view |-> Membership(table)]
    /\ UNCHANGED <<gameVars, dimVars, wallVars, pathVars, pc, genVars, table>>

\* find(val) called again right after find(val) returned.
DSFindAgain ==
    /\ pc = "disjoint_set"
    /\ ~Halted
    /\ last.op = "find"
    /\ last' = [op |-> "find_again", val |-> last.val, res |-> Find(table, last.val),
                registered |-> last.val \in DOMAIN table, view |-> Membership(table),
                first |-> last.res, first_view |-> last.view]
    /\ UNCHANGED <<gameVars, dimVars, wallVars, pathVars, pc, genVars, table>>

NextDS ==
    \/ \E val \in DSKeys : DSAdd(val)
    \/ \E a \in DSKeys, b \in DSKeys : DSUnion(a, b)
    \/ \E val \in DSKeys : DSFind(val)
    \/ DSFindAgain

SpecDS == InitDS /\ [][NextDS]_vars


(***************************************************************************)
(* The graph of open boundaries, read off the wall arrays                  *)
(***************************************************************************)
\* Vector arithmetic on 4-tuples.
VAdd(a, b) == <<a[1] + b[1], a[2] + b[2], a[3] + b[3], a[4] + b[4]>>
VSub(a, b) == <<a[1] - b[1], a[2] - b[2], a[3] - b[3], a[4] - b[4]>>
VNeg(a) == <<0 - a[1], 0 - a[2], 0 - a[3], 0 - a[4]>>

\* generate_maze has left the edge loop and carved the exit.
Generated == pc \in {"bfs", "backtrack", "done"}

\* b is an in-grid cell one open boundary away from a.
OpenStep(a, b) ==
    /\ b \in Cells
    /\ VSub(b, a) \in UnitDeltas
    /\ check_move(a, VSub(b, a)).value

RECURSIVE ReachableFrom(_)
ReachableFrom(S) ==
    LET N == S \cup {b \in Cells : \E a \in S : OpenStep(a, b)}
    IN  IF N = S THEN S ELSE ReachableFrom(N)

\* Number of edges of a shortest open route from the cells of `frontier`
\* (n edges away from the origin) to `target`; -1 when there is none.
RECURSIVE DistFrom(_, _, _, _)
DistFrom(frontier, seen, target, n) ==
    IF target \in frontier THEN n
    ELSE LET nxt == {b \in Cells \ seen : \E a \in frontier : OpenStep(a, b)}
         IN  IF nxt = {} THEN -1 ELSE DistFrom(nxt, seen \cup nxt, target, n + 1)

Dist(a, b) == DistFrom({a}, {a}, b, 0)

\* The NoWall entries between two in-grid cells, as <<axis, index>>.
InternalOpen ==
    {<<"x", i>> : i \in {k \in DOMAIN xwalls : k[4] # 0 /\ k[4] # width /\ xwalls[k] = "NoWall"}} \cup
    {<<"y", i>> : i \in {k \in DOMAIN ywalls : k[3] # 0 /\ k[3] # height /\ ywalls[k] = "NoWall"}} \cup
    {<<"z", i>> : i \in {k \in DOMAIN zwalls : k[2] # 0 /\ k[2] # depth /\ zwalls[k] = "NoWall"}} \cup
    {<<"w", i>> : i \in {k \in DOMAIN wwalls : k[1] # 0 /\ k[1] # fourth /\ wwalls[k] = "NoWall"}}

\* Every step of the path is a unit step that check_move allows.
PathValid(path) ==
    \A i \in 1..(Len(path) - 1) :
        /\ VSub(path[i + 1], path[i]) \in UnitDeltas
        /\ check_move(path[i], VSub(path[i + 1], path[i])).outcome = "ok"
        /\ check_move(path[i], VSub(path[i + 1], path[i])).value

(***************************************************************************)
(* The game played on the generated world: Objects::new places the food    *)
(* (objects.rs), the player moves where check_move allows (ui.rs,          *)
(* player.rs) and the ghost pursues the player (ghost.rs).                 *)
(*                                                                         *)
(* Positions are kept as cells.  The interpolated positions of player and  *)
(* ghost are not modelled: the player stands on dest_position and the      *)
(* ghost on the cell it last arrived at.  Instants are not modelled: at    *)
(* every Ghost::update the ghost may or may not have reached its           *)
(* destination.                                                            *)
(***************************************************************************)
\* The coordinates random_empty_cell may draw.  Its body is not in world.rs;
\* it is modelled after its documented contract: a uniformly random
\* coordinate within grid bounds, drawn again until its cell is Empty.
RandomCoordinate == Cells

\* Objects::new is called on the world that World::new returned; the locals
\* of generate_maze are gone (the adjacency map is kept for World::bfs).
NewObjects ==
    /\ pc = "done"
    /\ last = NoCall
    /\ pc' = "generate_food"
    /\ edges' = {}
    /\ table' = EmptyMap
    /\ queue' = <<>>
    /\ visited' = {}
    /\ backtrack' = EmptyMap
    /\ previous' = <<0, 0, 0, 0>>
    /\ UNCHANGED <<gameVars, dimVars, wallVars, pathVars, neighbors, last>>

\* Variant of the iteration of generate_food: the drawn cell is taken whether
\* it is Empty or not.
PlaceFoodNoReject ==
    /\ pc = "generate_food"
    /\ placed < food_count
    /\ \E c \in RandomCoordinate :
           /\ cells' = [cells EXCEPT ![c] = "Food"]
           /\ food' = food \cup {c}
           /\ placed' = placed + 1
    /\ UNCHANGED <<food_count, player, ghost, dimVars, wallVars, pathVars, pc, genVars, table, last>>

\* Variant of the iteration of generate_food: the drawn cell is not marked.
PlaceFoodNoMark ==
    /\ pc = "generate_food"
    /\ placed < food_count
    /\ \E c \in RandomCoordinate :
           IF cells[c] = "Empty"
           THEN /\ food' = food \cup {c}
                /\ placed' = placed + 1
                /\ UNCHANGED cells
           ELSE UNCHANGED <<cells, food, placed>>
    /\ UNCHANGED <<food_count, player, ghost, dimVars, wallVars, pathVars, pc, genVars, table, last>>

\* One draw of one iteration of generate_food (objects.rs:99-109): a draw of
\* an occupied cell is rejected and the sampler draws again; an Empty cell is
\* returned, marked Food and entered into the food map.
PlaceFood ==
    /\ pc = "generate_food"
    /\ placed < food_count
    /\ \E c \in RandomCoordinate :
           IF cells[c] = "Empty"
           THEN /\ cells' = [cells EXCEPT ![c] = "Food"]
                /\ food' = food \cup {c}
                /\ placed' = placed + 1
           ELSE UNCHANGED <<cells, food, placed>>
    /\ UNCHANGED <<food_count, player, ghost, dimVars, wallVars, pathVars, pc, genVars, table, last>>

\* The positions Ghost::new may draw: gen_range(d/2..d) on every axis.
GhostStarts ==
    {c \in Cells : /\ c[1] >= width \div 2 /\ c[2] >= height \div 2
                   /\ c[3] >= depth \div 2 /\ c[4] >= fourth \div 2}

\* generate_food has returned; Player::new and Ghost::new.
StartGame ==
    /\ pc = "generate_food"
    /\ placed = food_count
    /\ pc' = "playing"
    /\ player' = NewPlayer
    /\ \E g \in GhostStarts :
           ghost' = [grace |-> TRUE, position |-> g, dest_position |-> g,
                     init_position |-> g, current_move_time |-> 1]
    /\ UNCHANGED <<cells, food_count, food, placed, dimVars, wallVars, pathVars, genVars, table, last>>

\* Player::move_position: delta is added to dest_position.
move_position(p, delta) == [p EXCEPT !.dest_position = VAdd(@, delta)]

\* A key press: one of the eight controls; the step is applied when
\* check_move allows it.  A wall index outside its array ends in a panic.
PlayerMove ==
    /\ pc = "playing"
    /\ \E delta \in UnitDeltas :
           LET r == check_move(player.dest_position, delta)
           IN  IF r.outcome = "panic"
               THEN pc' = "panic" /\ UNCHANGED player
               ELSE /\ r.value
                    /\ player' = move_position(player, delta)
                    /\ UNCHANGED pc
    /\ UNCHANGED <<cells, food_count, food, placed, ghost, dimVars, wallVars, pathVars, genVars, table, last>>

\* Variant of Player::update: the eaten cell is left as Food.
PlayerUpdateKeepsFood ==
    /\ pc = "playing"
    /\ IF player.dest_position \notin DOMAIN cells
       THEN pc' = "panic" /\ UNCHANGED <<cells, food, player>>
       ELSE IF cells[player.dest_position] = "Food"
       THEN /\ food' = food \ {player.dest_position}
            /\ player' = [player EXCEPT
                              !.score = @ + 1,
                              !.game_state = IF player.score + 1 = food_count THEN "Won" ELSE @]
            /\ UNCHANGED <<pc, cells>>
       ELSE UNCHANGED <<pc, cells, food, player>>
    /\ UNCHANGED <<food_count, placed, ghost, dimVars, wallVars, pathVars, genVars, table, last>>

\* Variant of Player::update: eating the food also clears the xwalls entry
\* at the player's cell.
PlayerUpdateDigs ==
    /\ pc = "playing"
    /\ IF player.dest_position \notin DOMAIN cells
       THEN pc' = "panic" /\ UNCHANGED <<cells, food, player, wallVars>>
       ELSE IF cells[player.dest_position] = "Food"
       THEN /\ cells' = [cells EXCEPT ![player.dest_position] = "Empty"]
            /\ food' = food \ {player.dest_position}
            /\ player' = [player EXCEPT
                              !.score = @ + 1,
                              !.game_state = IF player.score + 1 = food_count THEN "Won" ELSE @]
            /\ xwalls' = [xwalls EXCEPT ![<<player.dest_position[4], player.dest_position[3],
                                            player.dest_position[2], player.dest_position[1]>>] = "NoWall"]
            /\ UNCHANGED <<pc, ywalls, zwalls, wwalls>>
       ELSE UNCHANGED <<pc, cells, food, player, wallVars>>
    /\ UNCHANGED <<food_count, placed, ghost, dimVars, pathVars, genVars, table, last>>

\* Player::update, lines 155-168: the lookup of the player's cell panics
\* when the index is outside the cells array; Food is eaten.
PlayerUpdate ==
    /\ pc = "playing"
    /\ IF player.dest_position \notin DOMAIN cells
       THEN pc' = "panic" /\ UNCHANGED <<cells, food, player>>
       ELSE IF cells[player.dest_position] = "Food"
       THEN /\ cells' = [cells EXCEPT ![player.dest_position] = "Empty"]
            /\ food' = food \ {player.dest_position}
            /\ player' = [player EXCEPT
                              !.score = @ + 1,
                              !.game_state = IF player.score + 1 = food_count THEN "Won" ELSE @]
            /\ UNCHANGED pc
       ELSE UNCHANGED <<pc, cells, food, player>>
    /\ UNCHANGED <<food_count, placed, ghost, dimVars, wallVars, pathVars, genVars, table, last>>

\* Lines 90-97: the factor applied to move_time.  The second test compares
\* dest_position[3] with itself.
MoveTimeFactor(init_position, dest_position) ==
    IF dest_position[3] # init_position[3] THEN 2
    ELSE IF dest_position[4] # dest_position[4] THEN 5
    ELSE 1

\* Lines 81-98, taken when now > reach_dest: the ghost stands on its
\* destination and takes the second cell of the path to the player as the
\* next one.
Repath(g, path) ==
    LET next == IF Len(path) >= 2 THEN path[2] ELSE g.dest_position
    IN  [grace |-> g.grace,
         position |-> g.dest_position,
         init_position |-> g.dest_position,
         dest_position |-> next,
         current_move_time |-> MoveTimeFactor(g.dest_position, next)]

\* Variant of Ghost::update: the grace period is not tested.
GhostUpdateNoGrace ==
    /\ pc = "playing"
    /\ IF ghost.position = player.dest_position
       THEN /\ player' = [player EXCEPT !.game_state = "Lost"]
            /\ ghost' = [ghost EXCEPT !.grace = FALSE]
            /\ UNCHANGED pc
       ELSE \/ LET r == bfs(ghost.dest_position, player.dest_position)
               IN  IF r.outcome = "panic"
                   THEN /\ pc' = "panic"
                        /\ ghost' = [ghost EXCEPT !.grace = FALSE]
                        /\ UNCHANGED player
                   ELSE /\ ghost' = Repath([ghost EXCEPT !.grace = FALSE], r.path)
                        /\ UNCHANGED <<pc, player>>
            \/ /\ ghost' = [ghost EXCEPT !.grace = FALSE]
               /\ UNCHANGED <<pc, player>>
    /\ UNCHANGED <<cells, food_count, food, placed, dimVars, wallVars, pathVars, genVars, table, last>>

\* Ghost::update.  During the grace period with score 0 it returns at once.
\* Otherwise grace is cleared; a ghost on the player's cell ends the game;
\* else the ghost either has reached its destination and re-paths (the path
\* search panics when the player's cell has no back-pointer) or is still on
\* its way.
GhostUpdate ==
    /\ pc = "playing"
    /\ IF ghost.grace /\ player.score = 0
       THEN UNCHANGED <<pc, player, ghost>>
       ELSE IF ghost.position = player.dest_position
       THEN /\ player' = [player EXCEPT !.game_state = "Lost"]
            /\ ghost' = [ghost EXCEPT !.grace = FALSE]
            /\ UNCHANGED pc
       ELSE \/ LET r == bfs(ghost.dest_position, player.dest_position)
               IN  IF r.outcome = "panic"
                   THEN /\ pc' = "panic"
                        /\ ghost' = [ghost EXCEPT !.grace = FALSE]
                        /\ UNCHANGED player
                   ELSE /\ ghost' = Repath([ghost EXCEPT !.grace = FALSE], r.path)
                        /\ UNCHANGED <<pc, player>>
            \/ /\ ghost' = [ghost EXCEPT !.grace = FALSE]
               /\ UNCHANGED <<pc, player>>
    /\ UNCHANGED <<cells, food_count, food, placed, dimVars, wallVars, pathVars, genVars, table, last>>

\* The steps of Ghost::update that the passing of time forces: the ghost
\* reaches its destination (now > reach_dest) and re-paths, or it stands on
\* the player's cell.
GhostProgress ==
    /\ GhostUpdate
    /\ \/ ghost'.position = ghost.dest_position
       \/ player'.game_state = "Lost"
       \/ pc' = "panic"

InitGame == NewWorld /\ food_count \in 0..MaxFood

NextGame ==
    \/ BeginGenerate
    \/ KruskalStep
    \/ CarveExit
    \/ BfsStep
    \/ BeginBacktrack
    \/ BacktrackStep
    \/ FinishSolution
    \/ NewObjects
    \/ PlaceFood
    \/ StartGame
    \/ PlayerMove
    \/ PlayerUpdate
    \/ GhostUpdate

SpecGame == InitGame /\ [][NextGame]_vars

\* The game with time passing: the ghost is updated again and again and
\* every move of the ghost comes to its end.
SpecPursuit == InitGame /\ [][NextGame]_vars /\ WF_vars(GhostProgress)

\* World::new followed by Objects::new, with fair random draws: a draw that
\* can hit an Empty cell eventually does.
NextFood ==
    \/ BeginGenerate
    \/ KruskalStep
    \/ CarveExit
    \/ BfsStep
    \/ BeginBacktrack
    \/ BacktrackStep
    \/ FinishSolution
    \/ NewObjects
    \/ PlaceFood
    \/ StartGame

SpecFood == InitGame /\ [][NextFood]_vars /\ WF_vars(PlaceFood)

(***************************************************************************)
(* generate_maze is public: main calls it on the world that World::new has *)
(* already generated.                                                      *)
(***************************************************************************)
\* The second call: generate_maze starts again on the world as it is.
CallGenerateMaze ==
    /\ pc = "done"
    /\ last = NoCall
    /\ last' = [op |-> "generate_maze"]
    /\ pc' = "generate_maze"
    /\ UNCHANGED <<gameVars, dimVars, wallVars, pathVars, genVars, table>>

NextRegen ==
    \/ BeginGenerate
    \/ KruskalStep
    \/ CarveExit
    \/ BfsStep
    \/ BeginBacktrack
    \/ BacktrackStep
    \/ FinishSolution
    \/ CallGenerateMaze

SpecRegen == Init /\ [][NextRegen]_vars

(***************************************************************************)
(* Claims                                                                  *)
(***************************************************************************)
\* C1: once generate_maze has processed all edges, every cell is reachable
\* from every other cell through NoWall boundaries, and the path search
\* between any two cells returns a non-empty path.
C1_Connectivity ==
    (Generated /\ last = NoCall) =>
        \A a \in Cells :
            /\ ReachableFrom({a}) = Cells
            /\ \A b \in Cells : bfs(a, b).outcome = "ok" /\ Len(bfs(a, b).path) > 0

C1_Witness ==
    /\ pc = "done"
    /\ Cardinality(Cells) = 4
    /\ last.op = "bfs"
    /\ last.start = finish
    /\ last.finish = start
    /\ last.res.outcome = "ok"
    /\ Len(last.res.path) = 4

\* C2: after the edge loop the number of NoWall boundaries between two
\* in-grid cells (the exit is not one) is the cell count minus 1; on the
\* 2x2x1x1 grid it is 3.
C2_SpanningTreeEdgeCount ==
    Generated =>
        /\ Cardinality(InternalOpen) = Cardinality(Cells) - 1
        /\ (<<width, height, depth, fourth>> = <<2, 2, 1, 1>> => Cardinality(InternalOpen) = 3)

C2_Witness ==
    /\ pc = "done"
    /\ <<width, height, depth, fourth>> = <<2, 2, 1, 1>>
    /\ Cardinality(InternalOpen) = 3
    /\ Cardinality(MazeEdges) = 4

\* C3: whenever check_move(a, delta) is true for a cell a and a unit step
\* delta, check_move(a + delta, -delta) returns true as well; this includes
\* the step from the finish cell through the exit.
C3_Symmetry ==
    /\ last = NoCall =>
           \A a \in Cells, delta \in UnitDeltas :
               check_move(a, delta).value =>
                   /\ check_move(VAdd(a, delta), VNeg(delta)).outcome = "ok"
                   /\ check_move(VAdd(a, delta), VNeg(delta)).value
    /\ (last.op = "check_move" /\ last.delta \in UnitDeltas /\ last.res.value) =>
           /\ check_move(VAdd(last.current, last.delta), VNeg(last.delta)).outcome = "ok"
           /\ check_move(VAdd(last.current, last.delta), VNeg(last.delta)).value

C3_Witness ==
    /\ pc = "done"
    /\ last.op = "check_move"
    /\ last.current = ExitCell
    /\ last.delta = <<-1, 0, 0, 0>>
    /\ last.res.value
    /\ check_move(finish, <<1, 0, 0, 0>>).value
    /\ Cardinality(InternalOpen) >= 3

\* C4: in the stored solution and in every bfs result, each consecutive
\* pair of cells differs by a unit step for which check_move is true.
C4_PathValidity ==
    /\ pc = "done" => PathValid(solution)
    /\ (Generated /\ last = NoCall) =>
           \A s \in Cells, f \in Cells : PathValid(bfs(s, f).path)

C4_Witness ==
    /\ pc = "done"
    /\ Len(solution) = 3
    /\ PathValid(solution)
    /\ \E i \in 1..2, j \in 1..2 :
           /\ VSub(solution[i + 1], solution[i]) \in {<<0, 1, 0, 0>>, <<0, -1, 0, 0>>}
           /\ VSub(solution[j + 1], solution[j]) \in {<<1, 0, 0, 0>>, <<-1, 0, 0, 0>>}

\* C5: the stored solution and every bfs result have as many edges as a
\* shortest route through open boundaries between their two end cells.
C5_ShortestPath ==
    /\ pc = "done" => Len(solution) - 1 = Dist(start, finish)
    /\ (Generated /\ last = NoCall) =>
           \A s \in Cells, f \in Cells : Len(bfs(s, f).path) - 1 = Dist(s, f)

C5_Witness ==
    /\ pc = "done"
    /\ Len(solution) - 1 = Dist(start, finish)
    /\ last.op = "bfs"
    /\ VSub(last.finish, last.start) \in UnitDeltas
    /\ Dist(last.start, last.finish) = 3
    /\ Len(last.res.path) = 4

\* C6: the stored solution and every bfs result begin with start and end
\* with finish; when start equals finish the sequence is that single cell.
C6_Endpoints ==
    /\ pc = "done" =>
           /\ Len(solution) >= 1
           /\ solution[1] = start
           /\ solution[Len(solution)] = finish
           /\ (start = finish => solution = <<start>>)
    /\ (Generated /\ last = NoCall) =>
           \A s \in Cells, f \in Cells :
               LET path == bfs(s, f).path
               IN  /\ Len(path) >= 1
                   /\ path[1] = s
                   /\ path[Len(path)] = f
                   /\ (s = f => path = <<s>>)

C6_Witness ==
    /\ pc = "done"
    /\ <<width, height, depth, fourth>> = <<1, 1, 1, 1>>
    /\ start = finish
    /\ solution = <<<<0, 0, 0, 0>>>>
    /\ last.op = "bfs"
    /\ last.res.path = <<<<0, 0, 0, 0>>>>

\* C7: after union(a, b) on two registered keys (equal, of one group or of
\* two groups), find(a) and find(b) return the same representative.
C7_UnionJoins ==
    (last.op = "union" /\ last.registered) =>
        /\ last.res.outcome = "ok"
        /\ Find(table, last.a).outcome = "ok"
        /\ Find(table, last.b).outcome = "ok"
        /\ Find(table, last.a).rep = Find(table, last.b).rep

\* C8: find(k) called twice in a row on a registered key returns the same
\* representative both times, and both calls see the same membership.
C8_FindIdempotent ==
    /\ (last.op = "find" /\ last.registered) => last.res.outcome = "ok"
    /\ last.op = "find_again" =>
           /\ last.res.outcome = "ok"
           /\ last.res.rep = last.first.rep
           /\ last.view = last.first_view

\* C9: find on a key that was never added ends in the panic and returns no
\* representative; find on an added key never ends in that panic.
C9_FindUnknownKeyPanics ==
    (last.op \in {"find", "find_again"}) =>
        /\ ~last.registered => last.res = Panic
        /\ last.registered => last.res.outcome # "panic"

C9_Witness ==
    /\ last.op = "find"
    /\ ~last.registered
    /\ last.res.outcome = "panic"
    /\ table # EmptyMap
    /\ \E k \in DOMAIN table : table[k].tag = "Ptr"

\* C10: for a delta that is not one of the eight unit vectors check_move
\* returns false and reads no wall entry, whatever the cell and the walls.
C10_NonUnitDeltaFalse ==
    /\ last = NoCall =>
           \A current \in Cells \cup {ExitCell}, delta \in Deltas \ UnitDeltas :
               check_move(current, delta) = [outcome |-> "ok", value |-> FALSE, reads |-> {}]
    /\ (last.op = "check_move" /\ last.delta \notin UnitDeltas) =>
           last.res = [outcome |-> "ok", value |-> FALSE, reads |-> {}]

C10_Witness ==
    /\ pc = "done"
    /\ last.op = "check_move"
    /\ last.current = finish
    /\ last.delta = <<2, 0, 0, 0>>
    /\ last.res.value = FALSE
    /\ check_move(finish, <<1, 0, 0, 0>>).value

\* The cells on the adjacency list recorded for c.
Adjacent(c) ==
    IF c \in DOMAIN neighbors
    THEN {neighbors[c][i] : i \in 1..Len(neighbors[c])}
    ELSE {}

\* C11: after generation, for every in-grid cell c and unit step delta with
\* c + delta in the grid, check_move(c, delta) is true exactly when c + delta
\* is on the adjacency list recorded for c.
C11_WallsMatchAdjacency ==
    (Generated /\ last = NoCall) =>
        \A c \in Cells, delta \in UnitDeltas :
            VAdd(c, delta) \in Cells =>
                (check_move(c, delta).value <=> VAdd(c, delta) \in Adjacent(c))

C11_Witness ==
    /\ pc = "done"
    /\ <<width, height>> = <<2, 2>>
    /\ last.op = "check_move"
    /\ last.current = <<1, 0, 0, 0>>
    /\ last.delta = <<-1, 0, 0, 0>>
    /\ last.res.value
    /\ <<0, 0, 0, 0>> \in Adjacent(<<1, 0, 0, 0>>)
    /\ ~check_move(<<0, 0, 0, 0>>, <<0, 1, 0, 0>>).value
    /\ <<0, 1, 0, 0>> \notin Adjacent(<<0, 0, 0, 0>>)

\* The entries of the wall arrays on the outer faces of the grid.
OuterWalls ==
    {<<"x", k>> : k \in {i \in DOMAIN xwalls : i[4] \in {0, width}}} \cup
    {<<"y", k>> : k \in {i \in DOMAIN ywalls : i[3] \in {0, height}}} \cup
    {<<"z", k>> : k \in {i \in DOMAIN zwalls : i[2] \in {0, depth}}} \cup
    {<<"w", k>> : k \in {i \in DOMAIN wwalls : i[1] \in {0, fourth}}}

WallAt(e) ==
    CASE e[1] = "x" -> xwalls[e[2]]
      [] e[1] = "y" -> ywalls[e[2]]
      [] e[1] = "z" -> zwalls[e[2]]
      [] e[1] = "w" -> wwalls[e[2]]

\* The +x boundary of the finish cell.
ExitWall == <<"x", <<finish[4], finish[3], finish[2], finish[1] + 1>>>>

\* C12: after generate_maze every outer boundary is SolidWall except exactly
\* one, the +x boundary of the finish cell, which is NoWall.
C12_OuterWallsSolidButExit ==
    Generated =>
        /\ ExitWall \in OuterWalls
        /\ WallAt(ExitWall) = "NoWall"
        /\ \A e \in OuterWalls \ {ExitWall} : WallAt(e) = "SolidWall"

C12_Witness ==
    /\ pc = "done"
    /\ <<width, height, depth, fourth>> = <<1, 2, 1, 2>>
    /\ WallAt(<<"x", <<1, 0, 1, 1>>>>) = "NoWall"
    /\ WallAt(<<"x", <<1, 0, 1, 0>>>>) = "SolidWall"
    /\ Cardinality(InternalOpen) = 3

\* C17: for every grid size and every edge order the walk along the
\* back-pointers from finish never stands on a cell other than start that has
\* no back-pointer, so the panic "Backtracking after BFS failed, impossible"
\* is never reached; the walk visits no cell twice, so it ends, and it ends
\* at start.
C17_BacktrackNeverPanics ==
    /\ pc # "panic"
    /\ pc = "backtrack" =>
          /\ previous = start \/ previous \in DOMAIN backtrack
          /\ Len(solution) >= 1
          /\ solution[Len(solution)] = previous
          /\ \A i \in 1..Len(solution), j \in 1..Len(solution) :
                 solution[i] = solution[j] => i = j
    /\ pc = "done" => previous = start

C17_Witness ==
    /\ pc = "backtrack"
    /\ Cardinality(Cells) = 4
    /\ previous = start
    /\ Len(solution) = 4
    /\ solution[1] = finish

\* The position of each axis in a coordinate, and the extent of the grid on it.
AxisPos(axis) ==
    CASE axis = "XWall" -> 1 [] axis = "YWall" -> 2 [] axis = "ZWall" -> 3 [] axis = "WWall" -> 4

Extent(axis) ==
    CASE axis = "XWall" -> width [] axis = "YWall" -> height
      [] axis = "ZWall" -> depth [] axis = "WWall" -> fourth

\* One edge per boundary between two cells of the grid: the boundary on the
\* given axis at coordinate 1 .. extent - 1, named by the cell above it.
InternalBoundaries ==
    {e \in [axis : {"XWall", "YWall", "ZWall", "WWall"}, c : Cells] :
        e.c[AxisPos(e.axis)] \in 1..(Extent(e.axis) - 1)}

\* C19: the candidate edge list built by generate_maze holds every internal
\* boundary of the grid exactly once and nothing else; each edge joins its
\* cell to the lower neighbour on its axis; the loop starts from exactly these
\* edges and only ever processes edges of the list.
C19_EdgeListIsInternalBoundaries ==
    /\ pc \in {"generate_maze", "kruskal"} =>
          LET list == EdgeList
              boundaries == InternalBoundaries
          IN  /\ \A i \in 1..Len(list), j \in 1..Len(list) : list[i] = list[j] => i = j
              /\ {list[i] : i \in 1..Len(list)} = boundaries
              /\ \A e \in boundaries :
                     /\ EdgeCells(e)[2] = e.c
                     /\ EdgeCells(e)[1] \in Cells
                     /\ VSub(EdgeCells(e)[2], EdgeCells(e)[1]) \in UnitDeltas
                     /\ EdgeCells(e)[1][AxisPos(e.axis)] = e.c[AxisPos(e.axis)] - 1
    /\ edges \subseteq InternalBoundaries
    /\ (pc = "kruskal" /\ \A c \in Cells : table[c] = Top) => edges = InternalBoundaries

C19_Witness ==
    /\ pc = "kruskal"
    /\ <<width, height, depth, fourth>> = <<2, 1, 1, 2>>
    /\ \A c \in Cells : table[c] = Top
    /\ Cardinality(edges) = 4
    /\ Len(EdgeList) = 4
    /\ EdgeList = <<XWall(<<1, 0, 0, 0>>), WWall(<<0, 0, 0, 1>>),
                    XWall(<<1, 0, 0, 1>>), WWall(<<1, 0, 0, 1>>)>>

\* The wall entry an edge stands for, as <<axis, index>>.
EdgeWall(edge) ==
    <<CASE edge.axis = "XWall" -> "x" [] edge.axis = "YWall" -> "y"
        [] edge.axis = "ZWall" -> "z" [] edge.axis = "WWall" -> "w",
      <<edge.c[4], edge.c[3], edge.c[2], edge.c[1]>>>>

\* The connected components of the graph of NoWall internal boundaries.
Components == {ReachableFrom({c}) : c \in Cells}

\* The groups of the disjoint set of cells.
Groups == {{b \in Cells : Find(table, b) = Find(table, a)} : a \in Cells}

\* During the loop the components of the open boundaries are the groups of
\* the disjoint set, and the open boundaries form a forest.
ForestMatchesGroups ==
    pc = "kruskal" =>
        /\ \A c \in Cells : Find(table, c).outcome = "ok"
        /\ Components = Groups
        /\ \A e \in InternalOpen : \E b \in InternalBoundaries : EdgeWall(b) = e
        /\ Cardinality(InternalOpen) + Cardinality(Components) = Cardinality(Cells)

\* One iteration of the loop, on the edge it takes from the list.
EdgeStep ==
    (pc = "kruskal" /\ edges' # edges) =>
        \A edge \in edges \ edges' :
            LET cell_a == EdgeCells(edge)[1]
                cell_b == EdgeCells(edge)[2]
            IN  IF Find(table, cell_a) # Find(table, cell_b)
                THEN /\ WallAt(EdgeWall(edge)) = "SolidWall"
                     /\ WallAt(EdgeWall(edge))' = "NoWall"
                     /\ Find(table, cell_a)' = Find(table, cell_b)'
                     /\ Find(table, cell_b)'.outcome = "ok"
                ELSE /\ WallAt(EdgeWall(edge)) = "SolidWall"
                     /\ UNCHANGED <<wallVars, table, neighbors>>

\* C20: at every step of the edge-processing loop the NoWall internal
\* boundaries form a forest whose connected components are exactly the
\* disjoint-set groups; an edge whose cells have different representatives
\* has its wall cleared and its groups united, and an edge whose cells are in
\* one group is skipped with its wall left SolidWall.
C20_ForestMatchesGroups == [](ForestMatchesGroups) /\ [][EdgeStep]_vars

\* A skipped edge: three walls of the 2 x 2 grid are open, all four cells are
\* in one group, and the fourth edge has been taken with its wall still solid.
C20_Witness ==
    /\ pc = "kruskal"
    /\ <<width, height>> = <<2, 2>>
    /\ edges = {}
    /\ Cardinality(InternalOpen) = 3
    /\ Cardinality(Groups) = 1
    /\ \E b \in InternalBoundaries : WallAt(EdgeWall(b)) = "SolidWall"

\* A step that is the call union(last'.a, last'.b) on keys of two different
\* groups: it writes one entry, that of the former find(a), which now points
\* to the former find(b); every key of the two former groups has the former
\* find(b) as representative, every other key keeps its own, and the entry of
\* the former find(b) is still Top.
UnionOfTwoGroups ==
    (last'.op = "union" /\ last'.registered) =>
        LET a_top == Find(table, last'.a)
            b_top == Find(table, last'.b)
        IN  (a_top.outcome = "ok" /\ b_top.outcome = "ok" /\ a_top # b_top) =>
                /\ DOMAIN table' = DOMAIN table
                /\ \A k \in DOMAIN table :
                       table'[k] = IF k = a_top.rep THEN Ptr(b_top.rep) ELSE table[k]
                /\ \A k \in DOMAIN table :
                       Find(table, k)' = IF Find(table, k) \in {a_top, b_top}
                                         THEN b_top ELSE Find(table, k)
                /\ table'[b_top.rep] = Top

\* C15: union(a, b) on keys of two different groups sets only the pointer of
\* find(a) to find(b); afterwards the representative of every key of both
\* former groups is the former find(b), whose entry is still Top.
C15_UnionSetsOnePointer == [][UnionOfTwoGroups]_vars

\* union(a, b) has returned where a was not the representative of its group:
\* a still points to its former representative, which points to find(b).
C15_Witness ==
    /\ last.op = "union"
    /\ last.res.outcome = "ok"
    /\ last.a # last.b
    /\ table[last.a].tag = "Ptr"
    /\ table[last.a].ptr # last.res.rep
    /\ table[table[last.a].ptr] = Ptr(last.res.rep)
    /\ table[last.res.rep] = Top
    /\ \A k \in {last.a, last.b, table[last.a].ptr} : Find(table, k) = last.res

\* What the claim states of add(key): find(key) is key, no other key has key
\* as representative, and a second add(key) changes nothing.
AddMakesSingleton ==
    last.op = "add" =>
        /\ Find(table, last.val) = Ok(last.val)
        /\ \A k \in (DOMAIN table) \ {last.val} : Find(table, k) # Ok(last.val)
        /\ Add(table, last.val) = table

\* C18 as stated: after add(key), key is the representative of a singleton
\* group, also when key had been added before, and add(key) twice leaves the
\* same state as add(key) once.
C18_AddMakesSingleton == AddMakesSingleton

\* A step that is the call add(last'.val): it writes the entry of val only.
AddWritesOneEntry ==
    last'.op = "add" =>
        /\ DOMAIN table' = (DOMAIN table) \cup {last'.val}
        /\ \A k \in (DOMAIN table) \ {last'.val} : table'[k] = table[k]

\* After add(key): find(key) is key; the keys having key as representative
\* are key and the keys whose pointers lead to key, so key is a singleton
\* when no entry points to it; a second add(key) changes nothing.
AddResetsEntry ==
    last.op = "add" =>
        /\ table[last.val] = Top
        /\ Find(table, last.val) = Ok(last.val)
        /\ (\A k \in DOMAIN table : table[k] # Ptr(last.val)) =>
               \A k \in (DOMAIN table) \ {last.val} : Find(table, k) # Ok(last.val)
        /\ \A k \in DOMAIN table :
               table[k] = Ptr(last.val) => Find(table, k) = Ok(last.val)
        /\ Add(table, last.val) = table

\* C18, amended: add(key) makes key the representative of its group and
\* writes no other entry; key is a singleton group when no other entry points
\* to it (as when key is new), keys pointing to key keep it as their
\* representative, and add(key) twice leaves the same state as once.
C18_AddResetsEntry == [](AddResetsEntry) /\ [][AddWritesOneEntry]_vars

\* add(key) on a key that was a member (not the representative) of a group of
\* two: key is cut out of its group and is a singleton again.
C18_Witness ==
    /\ last.op = "add"
    /\ Cardinality(DOMAIN table) = 3
    /\ \A k \in DOMAIN table : table[k] # Ptr(last.val)
    /\ \E k \in DOMAIN table : table[k].tag = "Ptr"
    /\ \A k \in (DOMAIN table) \ {last.val} : Find(table, k) # Ok(last.val)

\* C13: starting at (0,0,0,0), after any sequence of unit steps each applied
\* only when check_move allows it, every coordinate of the player's cell is
\* >= 0 and less than the corresponding dimension, and the cell lookup of
\* Player::update never indexes outside the cells array.
C13_PlayerInBounds ==
    /\ pc \in {"playing", "panic"} =>
           /\ player.dest_position[1] \in 0..(width - 1)
           /\ player.dest_position[2] \in 0..(height - 1)
           /\ player.dest_position[3] \in 0..(depth - 1)
           /\ player.dest_position[4] \in 0..(fourth - 1)
    /\ pc = "playing" => player.dest_position \in DOMAIN cells

\* C14: while generate_food runs, every iteration that has returned has
\* added a cell that was not in the food map, so the map holds as many
\* distinct cells as iterations done, and exactly the cells marked Food;
\* when it returns the map holds food_count cells.
C14_FoodCellsDistinct ==
    /\ pc = "generate_food" =>
           /\ Cardinality(food) = placed
           /\ placed <= food_count
           /\ food = {c \in Cells : cells[c] = "Food"}
    /\ (pc = "playing" /\ player.score = 0) => Cardinality(food) = food_count

C14_Witness ==
    /\ pc = "generate_food"
    /\ Cardinality(Cells) = 3
    /\ food_count = 2
    /\ placed = 2
    /\ Cardinality(food) = 2
    /\ Cardinality({c \in Cells : cells[c] = "Empty"}) = 1

\* A step taken after generate_maze has returned leaves the wall arrays alone.
WallsKept ==
    pc \in {"done", "generate_food", "playing", "panic"} =>
        (xwalls' = xwalls /\ ywalls' = ywalls /\ zwalls' = zwalls /\ wwalls' = wwalls)

\* C16: once generate_maze has returned, no step (food placement, a player
\* move with its check_move, Player::update, Ghost::update with its path
\* search) changes an entry of xwalls, ywalls, zwalls or wwalls.
C16_WallsUnchangedAfterGeneration == [][WallsKept]_vars

\* A game in which food was placed and eaten, the player has moved and the
\* ghost has re-pathed, on a maze that is still a spanning tree.
C16_Witness ==
    /\ pc = "playing"
    /\ Cardinality(Cells) = 4
    /\ player.score = 2
    /\ player.dest_position \in Cells \ {start}
    /\ ~ghost.grace
    /\ ghost.position # ghost.dest_position
    /\ Cardinality(InternalOpen) = 3
    /\ WallAt(ExitWall) = "NoWall"

\* The index <<w, z, y, x>> of the wall entries at the coordinates of cell c.
IdxOf(c) == <<c[4], c[3], c[2], c[1]>>

\* The axis a unit delta steps along, and whether it is an increment.
AxisOf(delta) ==
    CASE delta[1] # 0 -> "x" [] delta[2] # 0 -> "y" [] delta[3] # 0 -> "z" [] delta[4] # 0 -> "w"

Increment(delta) == delta[1] + delta[2] + delta[3] + delta[4] = 1

\* Every entry of the four wall arrays, as <<axis, index>>.
AllWallEntries ==
    {<<"x", i>> : i \in DOMAIN xwalls} \cup {<<"y", i>> : i \in DOMAIN ywalls} \cup
    {<<"z", i>> : i \in DOMAIN zwalls} \cup {<<"w", i>> : i \in DOMAIN wwalls}

\* What the claim states of a check_move call on an in-grid cell: an
\* increment reads the entry at the cell's own coordinates, a decrement the
\* entry at the coordinates one lower on the stepped axis.
ReadsLowerCell ==
    (last.op = "check_move" /\ last.current \in Cells /\ last.delta \in UnitDeltas) =>
        last.res.reads =
            {<<AxisOf(last.delta),
               IF Increment(last.delta) THEN IdxOf(last.current)
               ELSE IdxOf(VAdd(last.current, last.delta))>>}

\* C21 as stated: wall entries are addressed by the lower-index cell, so
\* check_move reads the entry at c's own coordinates for an increment and
\* the entry one lower for a decrement.
C21_AddressedByLowerCell == ReadsLowerCell

\* check_move on an in-grid cell reads the entry at the cell's own
\* coordinates for a decrement and the entry one higher on the stepped axis
\* for an increment: in both cases the coordinates of the higher of the two
\* cells.
ReadsHigherCell ==
    /\ (last.op = "check_move" /\ last.current \in Cells /\ last.delta \in UnitDeltas) =>
           last.res.reads =
               {<<AxisOf(last.delta),
                  IF Increment(last.delta) THEN IdxOf(VAdd(last.current, last.delta))
                  ELSE IdxOf(last.current)>>}
    /\ \A e \in InternalBoundaries :
           LET cell_a == EdgeCells(e)[1]
               cell_b == EdgeCells(e)[2]
           IN  /\ MoveWall(cell_a, VSub(cell_b, cell_a)) = <<AxisOf(VSub(cell_b, cell_a)), IdxOf(cell_b)>>
               /\ MoveWall(cell_b, VSub(cell_a, cell_b)) = <<AxisOf(VSub(cell_b, cell_a)), IdxOf(cell_b)>>

\* An iteration of the loop of generate_maze writes no entry but the one at
\* the coordinates of the higher cell of its edge, which is the entry
\* check_move reads for a step between the two cells.
ClearsHigherCell ==
    (pc = "kruskal" /\ edges' # edges) =>
        \A edge \in edges \ edges' :
            {e \in AllWallEntries : WallAt(e)' # WallAt(e)} \subseteq
                {MoveWall(EdgeCells(edge)[1], VSub(EdgeCells(edge)[2], EdgeCells(edge)[1]))}

\* C21, amended: each wall entry is addressed by the coordinates of the
\* higher-index cell of the two cells it separates; generate_maze clears
\* that entry and check_move reads it from either side.
C21_AddressedByHigherCell == [](ReadsHigherCell) /\ [][ClearsHigherCell]_vars

C21_Witness ==
    /\ pc = "done"
    /\ last.op = "check_move"
    /\ last.current = <<0, 0, 0, 0>>
    /\ last.delta = <<0, 0, 0, 1>>
    /\ last.res.reads = {<<"w", <<1, 0, 0, 0>>>>}
    /\ last.res.value
    /\ fourth = 2

\* The in-grid cells directly reachable from c through an open boundary.
OpenNeighbours(c) ==
    {VAdd(c, d) : d \in {delta \in UnitDeltas :
                            VAdd(c, delta) \in Cells /\ check_move(c, delta).value}}

\* c has at least one NoWall boundary, the exit included.
HasOpenBoundary(c) == \E delta \in UnitDeltas : check_move(c, delta).value

\* The list recorded for c holds no cell twice.
ListedOnce(c) ==
    \A i \in 1..Len(neighbors[c]), j \in 1..Len(neighbors[c]) :
        neighbors[c][i] = neighbors[c][j] => i = j

\* C22 as stated: after generation, for every grid size including 1x1x1x1,
\* every cell with at least one NoWall boundary (the exit included) is a key
\* of the adjacency index and its list holds exactly the cells directly
\* reachable from it through an open boundary, each once.
C22_OpenCellsAreKeys ==
    (Generated /\ last = NoCall) =>
        \A c \in Cells :
            HasOpenBoundary(c) =>
                /\ c \in DOMAIN neighbors
                /\ Adjacent(c) = OpenNeighbours(c)
                /\ ListedOnce(c)

\* C22, amended: after generation a cell is a key of the adjacency index
\* exactly when it has a NoWall boundary to another cell of the grid; its
\* list holds exactly the in-grid cells reachable through an open boundary,
\* each once.  The exit boundary adds neither a key nor a list entry: for
\* the 1x1x1x1 grid the index is empty although the exit is open.
C22_InternallyOpenCellsAreKeys ==
    (Generated /\ last = NoCall) =>
        /\ DOMAIN neighbors = {c \in Cells : OpenNeighbours(c) # {}}
        /\ \A c \in DOMAIN neighbors :
               /\ Adjacent(c) = OpenNeighbours(c)
               /\ ListedOnce(c)
        /\ ExitCell \notin Adjacent(finish)
        /\ HasOpenBoundary(finish)
        /\ Cardinality(Cells) = 1 => neighbors = EmptyMap

C22_Witness ==
    /\ pc = "done"
    /\ last = NoCall
    /\ <<width, height>> = <<2, 2>>
    /\ finish \in DOMAIN neighbors
    /\ Len(neighbors[finish]) = 2
    /\ Cardinality(DOMAIN neighbors) = 4
    /\ check_move(finish, <<1, 0, 0, 0>>).value

\* While the score is 0 a step of the game leaves the ghost as it is and
\* does not set the game state to Lost; the grace flag is never set again;
\* an update made with a score above 0 leaves the flag cleared.
GraceStep ==
    pc = "playing" =>
        /\ player.score = 0 => (ghost' = ghost /\ player'.game_state # "Lost")
        /\ ~ghost.grace => ~ghost'.grace
        /\ (ghost.grace /\ player.score > 0 /\ GhostUpdate) => ~ghost'.grace

\* C23: as long as the player's score is 0, Ghost::update leaves the ghost's
\* position and destination unchanged and does not set the game state to
\* Lost; the grace flag is cleared at the first update with score > 0 and is
\* never set again.
C23_GracePeriod ==
    /\ []((pc = "playing" /\ player.score = 0) => (ghost.grace /\ player.game_state # "Lost"))
    /\ [][GraceStep]_vars

\* The player has walked onto the ghost's cell during the grace period.
C23_Witness ==
    /\ pc = "playing"
    /\ player.score = 0
    /\ food_count > 0
    /\ ghost.grace
    /\ player.dest_position = ghost.position
    /\ player.dest_position # start
    /\ player.game_state = "Playing"

\* C24: the move time of the ghost's current step is the base move time
\* times 2 when the step changes the z coordinate, times 5 when it changes
\* the fourth coordinate, and times 1 for a step in x or y.
C24_MoveTimePenalty ==
    pc \in {"playing", "panic"} =>
        ghost.current_move_time =
            IF ghost.dest_position[3] # ghost.init_position[3] THEN 2
            ELSE IF ghost.dest_position[4] # ghost.init_position[4] THEN 5
            ELSE 1

\* random_empty_cell is running and n calls have returned before it.
Sampling(n) == pc = "generate_food" /\ placed = n /\ placed < food_count

SomeCellEmpty == \E c \in Cells : cells[c] = "Empty"

\* C25: under fair random draws a call of random_empty_cell made while some
\* cell is Empty returns; a call made while every cell is occupied never
\* returns: no step leaves such a state.
C25_SamplerTermination ==
    /\ \A n \in 0..(MaxFood - 1) : (Sampling(n) /\ SomeCellEmpty) ~> (placed = n + 1)
    /\ [][~(\E n \in 0..(MaxFood - 1) : Sampling(n) /\ ~SomeCellEmpty)]_vars

\* The sampler is called on a full grid.
C25_Witness ==
    /\ pc = "generate_food"
    /\ Cardinality(Cells) = 1
    /\ food_count = 2
    /\ placed = 1
    /\ ~SomeCellEmpty

\* C26: after any sequence of add and union calls on registered keys the
\* representative pointers hold no cycle: from every registered key the Ptr
\* entries lead to a key marked Top, so find returns for every key.
C26_NoPointerCycle ==
    \A k \in DOMAIN table :
        /\ Find(table, k).outcome = "ok"
        /\ table[Find(table, k).rep] = Top

\* C27: for every cell within grid bounds and every one of the eight unit
\* deltas, a decrement from coordinate 0 and an increment from the highest
\* coordinate included, check_move reads one wall entry, which exists in its
\* array, and returns without an out-of-bounds failure.
C27_CheckMoveInBounds ==
    /\ last = NoCall =>
           \A c \in Cells, delta \in UnitDeltas :
               /\ MoveWall(c, delta) \in AllWallEntries
               /\ check_move(c, delta).outcome = "ok"
               /\ check_move(c, delta).reads = {MoveWall(c, delta)}
    /\ (last.op = "check_move" /\ last.current \in Cells /\ last.delta \in UnitDeltas) =>
           /\ last.res.outcome = "ok"
           /\ last.res.reads \subseteq AllWallEntries
           /\ Cardinality(last.res.reads) = 1

\* An increment from the highest x coordinate, at the finish cell.
C27_Witness ==
    /\ pc = "done"
    /\ last.op = "check_move"
    /\ last.current = finish
    /\ last.delta = <<1, 0, 0, 0>>
    /\ width = 3
    /\ last.res.outcome = "ok"
    /\ last.res.reads = {<<"x", <<0, 0, 0, 3>>>>}
    /\ ~check_move(start, <<-1, 0, 0, 0>>).value

\* C28: when generate_maze has run a second time on a generated world, the
\* number of NoWall internal boundaries is still the cell count minus 1.
C28_SecondRunSpanningTree ==
    (pc = "done" /\ last.op = "generate_maze") =>
        Cardinality(InternalOpen) = Cardinality(Cells) - 1

\* A step that leaves the player's cell as it is.
PlayerStays == player'.dest_position = player.dest_position

\* C29: once the grace period is over, if the player's cell stays unchanged,
\* the ghost's destination eventually equals the player's cell and the game
\* state eventually becomes Lost.
C29_PursuitReachesPlayer ==
    (<>(pc = "playing" /\ ~ghost.grace) /\ <>[][PlayerStays]_vars) =>
        (<>(ghost.dest_position = player.dest_position) /\ <>(player.game_state = "Lost"))

\* The cells whose state is Food.
FoodCells == {c \in Cells : cells[c] = "Food"}

\* Score and Food cells add up to food_count, the food map holds the Food
\* cells, and Won is set only with all food eaten.
ScoreAccounts ==
    pc \in {"playing", "panic"} =>
        /\ player.score + Cardinality(FoodCells) = food_count
        /\ food = FoodCells
        /\ player.game_state = "Won" => player.score = food_count

\* A step that changes the score: the player stands on a Food cell, which is
\* counted once, set to Empty and removed from the food map.
EatStep ==
    (pc = "playing" /\ player'.score # player.score) =>
        /\ cells[player.dest_position] = "Food"
        /\ player'.score = player.score + 1
        /\ cells' = [cells EXCEPT ![player.dest_position] = "Empty"]
        /\ food' = food \ {player.dest_position}
        /\ player'.game_state = "Won" <=> player'.score = food_count

\* C30: in every state reached after food generation by player moves and
\* Player::update calls, the score plus the number of Food cells equals
\* food_count; a Food cell entered by the player is counted once, set to
\* Empty and removed from the food map, and the game state becomes Won only
\* when the score equals food_count.
C30_ScorePlusFood == [](ScoreAccounts) /\ [][EatStep]_vars

C30_Witness ==
    /\ pc = "playing"
    /\ Cardinality(Cells) = 4
    /\ food_count = 2
    /\ player.score = 2
    /\ player.game_state = "Won"
    /\ FoodCells = {}
    /\ food = {}

=============================================================================
